---- MODULE Spec2Model ----
(***************************************************************************)
(* Model of the Uploader component (src/client/Uploader.tsx): the file     *)
(* selection, the chunked upload loop of onChunkSubmit, the whole-file     *)
(* batch of onSubmit, and the notifications they make to the host.         *)
(*                                                                         *)
(* One step of the model is one turn of the event loop: a DOM event        *)
(* handler run up to its first await, or the settling of an awaited        *)
(* promise followed by the continuation up to the next await.              *)
(***************************************************************************)
EXTENDS Integers, Sequences, FiniteSets

\* ------------------------------------------------------------------ bounds
MaxChunkSize == 1     \* largest chunkSize prop
MaxAttempts == 2      \* submit events in one behaviour
BigSize == 101        \* largest file size of the single-run specification
BigChunkSize == 2     \* largest chunkSize prop of the single-run specification
LongFrom == 190       \* smallest file size of the long-run specification
LongSize == 200       \* largest file size of the long-run specification
FairSize == 12        \* largest file size of the fair specification

\* const CHUNK_SIZE = 1024 * 50
CHUNK_SIZE == 1024 * 50

\* --------------------------------------------------------------- variables
VARIABLES
    props,            \* the component's props: upload / uploadChunk, chunkSize, fetchFiles
    env,              \* the user: files the picker offers, submit events left
    files,            \* useState<File[]>([])
    error,            \* useState('')
    chunksProgress,   \* useState(0)
    isUploading,      \* useState(false) of the upload hooks (hook variant only)
    atts              \* one record per run of a submit handler, in submit order

vars == <<props, env, files, error, chunksProgress, isUploading, atts>>

\* ----------------------------------------------------------------- helpers
Min(a, b) == IF a < b THEN a ELSE b

File(n, s) == [name |-> n, size |-> s]

\* The files the picker offers in the default specification.
Catalog == {File("a.txt", 2), File("b.txt", 1)}

\* The files of the single-run specification: one of every size.
BigCatalog == {File("a.txt", s) : s \in 0..BigSize}

\* FileList values a change event can carry: up to n different files of
\* the catalog, in any order.
Selections(cat, n) ==
    {fs \in UNION {[1..k -> cat] : k \in 0..n} :
        \A i, j \in 1..Len(fs) : fs[i] = fs[j] => i = j}

\* Number.prototype.toString() of a non-negative integer: its decimal digits.
Digits == <<"0", "1", "2", "3", "4", "5", "6", "7", "8", "9">>

RECURSIVE toString(_)
toString(n) ==
    IF n < 10 THEN <<Digits[n + 1]>>
    ELSE toString(n \div 10) \o <<Digits[(n % 10) + 1]>>

\* Math.ceil(file.size / chunkSize), chunkSize >= 1.
TotalChunksFloor(size, chunkSize) == size \div chunkSize
TotalChunks(size, chunkSize) == (size + chunkSize - 1) \div chunkSize

\* const start = i * chunkSize
ChunkStartSkip(i, chunkSize) == i * chunkSize + i
ChunkStart(i, chunkSize) == i * chunkSize

\* const end = Math.min(file.size, start + chunkSize)
ChunkEndInclusive(i, size, chunkSize) ==
    Min(size, ChunkStart(i, chunkSize) + chunkSize + 1)
ChunkEnd(i, size, chunkSize) == Min(size, ChunkStart(i, chunkSize) + chunkSize)

\* file.slice(start, end): the bytes [start, end) of the file, both clamped
\* to the file's size.
Slice(file, start, end) ==
    LET from == Min(start, file.size)
        to == Min(end, file.size)
    IN  [of |-> file, from |-> from, to |-> IF to < from THEN from ELSE to]

\* ((i + 1) / totalChunks) * 100 is evaluated in IEEE-754 doubles.  For
\* these (i + 1, totalChunks) the exact value is k + 1/2 and the double
\* product is one ulp below it, so Math.round gives k instead of k + 1
\* (all such pairs with totalChunks <= 400).
BelowHalf ==
    {<<23, 40>>, <<46, 80>>, <<69, 120>>, <<92, 160>>, <<29, 200>>,
     <<57, 200>>, <<113, 200>>, <<115, 200>>, <<138, 240>>, <<161, 280>>,
     <<184, 320>>, <<207, 360>>, <<58, 400>>, <<114, 400>>, <<226, 400>>,
     <<230, 400>>}

\* Math.round(((i + 1) / totalChunks) * 100): nearest integer, halves up.
PercentCeil(done, total) == (100 * done + total - 1) \div total
PercentOfIndex(done, total) == (200 * (done - 1) + total) \div (2 * total)
Percent(done, total) ==
    IF <<done, total>> \in BelowHalf
    THEN (200 * done + total) \div (2 * total) - 1
    ELSE (200 * done + total) \div (2 * total)

\* The FormData built for chunk i of the file.
FormData(file, i, totalChunks, chunkSize) ==
    [file |-> Slice(file, ChunkStart(i, chunkSize), ChunkEnd(i, file.size, chunkSize)),
     filename |-> file.name,
     currentChunkIndex |-> toString(i),
     totalChunks |-> toString(totalChunks)]

\* Entries of an attempt's trace: the effects the handler made, in order.
Ev(e) == [ev |-> e, msg |-> "", num |-> 0]
EvMsg(e, m) == [ev |-> e, msg |-> m, num |-> 0]
EvNum(e, n) == [ev |-> e, msg |-> "", num |-> n]

\* fileListRef.current?.refetch(): a call only when the FileList is rendered.
Refetch(tr) == IF props.fetchFiles THEN Append(tr, Ev("refetch")) ELSE tr

\* FileList's fetch, which refetch() is: fetchFiles() is called, its promise
\* is left to .then and .catch, and nothing is returned.  An attempt's list
\* is "none" before that, "pending" from the call on.
FetchStarted == IF props.fetchFiles THEN "pending" ELSE "none"

ChunkFailedMsg == "Chunked upload failed"
UploadFailedMsg == "Something went wrong during upload"

\* -------------------------------------------------------------------- Init
\* The file input of the whole-file form is `multiple` (line 161), the one
\* of the chunked form is not (line 186): its FileList holds one file at most.
MaxSel(n) == IF props.mode = "upload" THEN n ELSE 1

\* Exactly one of upload / uploadChunk is passed; chunkSize is read in
\* chunked mode only and is left at its default otherwise.
TypeProps(maxChunk) ==
    [mode : {"uploadChunk"}, chunkSize : 1..maxChunk, fetchFiles : BOOLEAN]
    \cup [mode : {"upload"}, chunkSize : {CHUNK_SIZE}, fetchFiles : BOOLEAN]

InitState ==
    /\ files = <<>>
    /\ error = ""
    /\ chunksProgress = 0
    /\ isUploading = FALSE
    /\ atts = <<>>

Init ==
    /\ props \in TypeProps(MaxChunkSize)
    /\ env = [catalog |-> Catalog, maxSel |-> MaxSel(Cardinality(Catalog)),
              submits |-> MaxAttempts]
    /\ InitState

\* One submit, and one file on offer, of any size up to BigSize.
InitSingle ==
    /\ props \in TypeProps(BigChunkSize)
    /\ \E f \in BigCatalog :
          env = [catalog |-> {f}, maxSel |-> MaxSel(1), submits |-> 1]
    /\ InitState

\* One submit, and one file on offer, of a size from LongFrom to LongSize,
\* sent in chunks of one byte (or whole).
InitLong ==
    /\ props \in TypeProps(1)
    /\ \E s \in LongFrom..LongSize :
          env = [catalog |-> {File("a.txt", s)}, maxSel |-> MaxSel(1), submits |-> 1]
    /\ InitState

\* One submit of the fixture's files: a whole-file batch of up to two
\* files, or a chunked transfer of one of them.
InitBatch ==
    /\ props \in TypeProps(MaxChunkSize)
    /\ env = [catalog |-> Catalog, maxSel |-> MaxSel(Cardinality(Catalog)),
              submits |-> 1]
    /\ InitState

\* Several submits, of one file each.
InitRetry ==
    /\ props \in TypeProps(MaxChunkSize)
    /\ env = [catalog |-> Catalog, maxSel |-> 1, submits |-> MaxAttempts]
    /\ InitState

\* One submit, with change events as a script sends them to either input
\* (input.files = ...; dispatchEvent(new Event('change'))): the `multiple`
\* attribute does not limit them, and e.target.files may be null.  picked
\* records what the last change event carried.
InitScripted ==
    /\ props \in TypeProps(MaxChunkSize)
    /\ env = [catalog |-> Catalog, maxSel |-> Cardinality(Catalog), submits |-> 1,
              picked |-> <<>>]
    /\ InitState

\* ---------------------------------------------------------------- onChange
\* e.target.files of a change event: a FileList <<fs>>, or null <<>> when
\* the event does not come from the picker.
Scripted == "picked" \in DOMAIN env
ChangeEvents ==
    {<<fs>> : fs \in Selections(env.catalog, env.maxSel)}
        \cup (IF Scripted THEN {<<>>} ELSE {})

\* if (e.target.files) setFiles(Array.from(e.target.files))
FilesAfterChangeAdds(old, e) == IF Len(e) = 0 THEN old ELSE old \o e[1]
FilesAfterChange(old, e) == IF Len(e) = 0 THEN old ELSE e[1]

onChange ==
    /\ \E e \in ChangeEvents :
          /\ files' = FilesAfterChange(files, e)
          /\ env' = IF Scripted THEN [env EXCEPT !.picked = e] ELSE env
    /\ UNCHANGED <<isUploading, props, error, chunksProgress, atts>>

\* ----------------------------------------------------------- onChunkSubmit
\* Positions of the adapter calls of an attempt whose promise is pending.
Inflight(a) == {j \in 1..Len(a.results) : a.results[j] = "pending"}

\* The outcome of the pending call at position j arrives.
Settle(a, j, outcome) == [a EXCEPT !.results[j] = outcome]

\* The loop body up to the await: build the FormData of chunk i and call
\* uploadChunk with it.
SendChunkCurrentFile(a, i) ==
    LET f == IF Len(files) > 0 THEN files[1] ELSE a.file
    IN  [a EXCEPT !.pc = "awaitChunk",
                  !.i = i,
                  !.calls = Append(@, FormData(f, i, TotalChunks(f.size, props.chunkSize),
                                               props.chunkSize)),
                  !.results = Append(@, "pending"),
                  !.trace = Append(@, EvNum("uploadChunk", i))]
SendChunkNoAwait(a, i) ==
    LET one(b, k) ==
            [b EXCEPT !.pc = "awaitChunk",
                      !.i = i,
                      !.calls = Append(@, FormData(a.file, k, a.totalChunks, props.chunkSize)),
                      !.results = Append(@, "pending"),
                      !.trace = Append(@, EvNum("uploadChunk", k))]
    IN  IF i + 1 < a.totalChunks THEN one(one(a, i), i + 1) ELSE one(a, i)
SendChunk(a, i) ==
    [a EXCEPT !.pc = "awaitChunk",
              !.i = i,
              !.calls = Append(@, FormData(a.file, i, a.totalChunks, props.chunkSize)),
              !.results = Append(@, "pending"),
              !.trace = Append(@, EvNum("uploadChunk", i))]

\* After the loop: refetch the list, then notify the parent.
AfterLoopRefetchOnSuccess(a) ==
    [a EXCEPT !.pc = "done",
              !.trace = Append(IF \E k \in 1..Len(a.trace) : a.trace[k].ev = "onFail"
                               THEN a.trace ELSE Refetch(a.trace),
                               Ev("onSuccess"))]
AfterLoopNotifyFirst(a) ==
    [a EXCEPT !.pc = "done",
              !.trace = Refetch(Append(@, Ev("onSuccess"))),
              !.list = FetchStarted]
AfterLoop(a) ==
    [a EXCEPT !.pc = "done",
              !.trace = Append(Refetch(@), Ev("onSuccess")),
              !.list = FetchStarted]

\* setError('Chunked upload failed'); onFail('Chunked upload failed'); break
FailChunkNoBreak(a) ==
    LET a1 == [a EXCEPT !.trace = @ \o <<EvMsg("setError", ChunkFailedMsg),
                                          EvMsg("onFail", ChunkFailedMsg)>>]
    IN  IF a.i + 1 < a.totalChunks THEN SendChunk(a1, a.i + 1) ELSE AfterLoop(a1)
FailChunk(a) ==
    AfterLoop([a EXCEPT !.trace = @ \o <<EvMsg("setError", ChunkFailedMsg),
                                         EvMsg("onFail", ChunkFailedMsg)>>])

\* setChunksProgress(...), then the next turn of the loop or its end.
NextChunk(a) ==
    LET a1 == [a EXCEPT !.trace = Append(@, EvNum("setChunksProgress",
                                            Percent(a.i + 1, a.totalChunks)))]
    IN  IF a.i + 1 < a.totalChunks THEN SendChunk(a1, a.i + 1) ELSE AfterLoop(a1)

\* What a run of a submit handler starts from: the state its closure reads.
NewAttemptLastFile(kind) ==
    [kind |-> kind, pc |-> "done", sel |-> files,
     file |-> IF Len(files) > 0 THEN files[Len(files)] ELSE File("", 0),
     i |-> 0, totalChunks |-> 0, calls |-> <<>>, results |-> <<>>,
     trace |-> <<>>, error0 |-> error, progress0 |-> chunksProgress,
     alone |-> \A m \in 1..Len(atts) : atts[m].pc = "done", list |-> "none"]
NewAttempt(kind) ==
    [kind |-> kind, pc |-> "done", sel |-> files,
     file |-> IF Len(files) > 0 THEN files[1] ELSE File("", 0),
     i |-> 0, totalChunks |-> 0, calls |-> <<>>, results |-> <<>>,
     trace |-> <<>>, error0 |-> error, progress0 |-> chunksProgress,
     alone |-> \A m \in 1..Len(atts) : atts[m].pc = "done", list |-> "none"]

\* if (uploadChunk && files.length > 0) { ... }
onChunkSubmitNoGuard ==
    /\ props.mode = "uploadChunk"
    /\ LET a0 == NewAttempt("chunk")
           t == TotalChunks(a0.file.size, props.chunkSize)
           a1 == [a0 EXCEPT !.totalChunks = IF t = 0 THEN 1 ELSE t]
       IN  atts' = Append(atts, SendChunk(a1, 0))
    /\ UNCHANGED <<isUploading, files, error, chunksProgress>>
onChunkSubmit ==
    /\ props.mode = "uploadChunk"
    /\ LET a0 == NewAttempt("chunk")
           a1 == [a0 EXCEPT !.totalChunks = TotalChunks(a0.file.size, props.chunkSize)]
       IN  atts' = Append(atts,
               IF Len(files) > 0
               THEN IF 0 < a1.totalChunks THEN SendChunk(a1, 0) ELSE AfterLoop(a1)
               ELSE a0)
    /\ UNCHANGED <<isUploading, files, error, chunksProgress>>

\* uploadChunk's promise resolves with response.ok
ChunkOk(n) ==
    /\ atts[n].pc = "awaitChunk"
    /\ chunksProgress' = Percent(atts[n].i + 1, atts[n].totalChunks)
    /\ atts' = [atts EXCEPT ![n] = NextChunk(Settle(@, @.i + 1, "ok"))]
    /\ UNCHANGED <<isUploading, props, env, files, error>>

\* uploadChunk's promise resolves with !response.ok: await response.text()
ChunkNotOkAdvance(n) ==
    /\ atts[n].pc = "awaitChunk"
    /\ chunksProgress' = Percent(atts[n].i + 1, atts[n].totalChunks)
    /\ atts' = [atts EXCEPT ![n] =
                  [Settle(@, @.i + 1, "notok") EXCEPT
                      !.pc = "awaitText",
                      !.trace = Append(@, EvNum("setChunksProgress",
                          Percent(atts[n].i + 1, atts[n].totalChunks)))]]
    /\ UNCHANGED <<isUploading, props, env, files, error>>
ChunkNotOk(n) ==
    /\ atts[n].pc = "awaitChunk"
    /\ atts' = [atts EXCEPT ![n] = [Settle(@, @.i + 1, "notok") EXCEPT !.pc = "awaitText"]]
    /\ UNCHANGED <<isUploading, props, env, files, error, chunksProgress>>

\* response.text() settles: resolved, the branch of line 79 goes on; rejected,
\* the catch block runs.  Both set the error, call onFail and break.
ChunkTextRetries(n) ==
    /\ atts[n].pc = "awaitText"
    /\ atts' = [atts EXCEPT ![n] = [Settle(@, @.i + 1, "pending") EXCEPT
                                       !.pc = "awaitChunk"]]
    /\ UNCHANGED <<isUploading, props, env, files, error, chunksProgress>>
ChunkText(n) ==
    /\ atts[n].pc = "awaitText"
    /\ error' = ChunkFailedMsg
    /\ atts' = [atts EXCEPT ![n] = FailChunk(@)]
    /\ UNCHANGED <<isUploading, props, env, files, chunksProgress>>

\* uploadChunk's promise rejects: the catch block runs
ChunkRejectResets(n) ==
    /\ atts[n].pc = "awaitChunk"
    /\ error' = ChunkFailedMsg
    /\ chunksProgress' = 0
    /\ atts' = [atts EXCEPT ![n] = FailChunk(Settle(@, @.i + 1, "rejected"))]
    /\ UNCHANGED <<isUploading, props, env, files>>
ChunkRejectRetryOnce(n) ==
    /\ atts[n].pc = "awaitChunk"
    /\ LET j == Len(atts[n].results)
           a == Settle(atts[n], j, "rejected")
       IN  IF j = a.i + 1
           THEN /\ atts' = [atts EXCEPT ![n] = SendChunk(a, a.i)]
                /\ error' = error
           ELSE /\ atts' = [atts EXCEPT ![n] = FailChunk(a)]
                /\ error' = ChunkFailedMsg
    /\ UNCHANGED <<isUploading, props, env, files, chunksProgress>>
ChunkReject(n) ==
    /\ atts[n].pc = "awaitChunk"
    /\ error' = ChunkFailedMsg
    /\ atts' = [atts EXCEPT ![n] = FailChunk(Settle(@, @.i + 1, "rejected"))]
    /\ UNCHANGED <<isUploading, props, env, files, chunksProgress>>

\* ---------------------------------------------------------------- onSubmit
\* for (const file of files) promises.push(upload(file))
PushAllSequential(a, k) ==
    IF k > Len(a.sel) THEN a
    ELSE [a EXCEPT !.calls = Append(@, a.sel[k]),
                   !.results = Append(@, "pending"),
                   !.trace = Append(@, EvNum("upload", k))]
RECURSIVE PushAll(_, _)
PushAll(a, k) ==
    IF k > Len(a.sel) THEN a
    ELSE PushAll([a EXCEPT !.calls = Append(@, a.sel[k]),
                           !.results = Append(@, "pending"),
                           !.trace = Append(@, EvNum("upload", k))], k + 1)

\* Promise.all resolved: refetch, onSuccess, setFiles([])
BatchSuccessAwaitsList(a) ==
    IF props.fetchFiles
    THEN [a EXCEPT !.pc = "done", !.trace = Refetch(@), !.list = FetchStarted]
    ELSE [a EXCEPT !.pc = "done",
                   !.trace = @ \o <<Ev("onSuccess"), Ev("setFiles")>>]
BatchSuccess(a) ==
    [a EXCEPT !.pc = "done",
              !.trace = Refetch(@) \o <<Ev("onSuccess"), Ev("setFiles")>>,
              !.list = FetchStarted]

\* Promise.all rejected: setError, onFail
BatchFail(a) ==
    [a EXCEPT !.pc = "done",
              !.trace = @ \o <<EvMsg("setError", UploadFailedMsg),
                               EvMsg("onFail", UploadFailedMsg)>>]

\* if (upload) { ... await Promise.all(promises) ... }; Promise.all of no
\* promise is resolved at once.
onSubmitNoAwait ==
    /\ props.mode = "upload"
    /\ atts' = Append(atts, BatchSuccess(PushAll(NewAttempt("whole"), 1)))
    /\ files' = <<>>
    /\ UNCHANGED <<isUploading, error, chunksProgress>>
onSubmit ==
    /\ props.mode = "upload"
    /\ LET a == [PushAll(NewAttempt("whole"), 1) EXCEPT !.pc = "awaitAll"]
       IN  IF Inflight(a) = {}
           THEN /\ atts' = Append(atts, BatchSuccess(a))
                /\ files' = <<>>
           ELSE /\ atts' = Append(atts, a)
                /\ files' = files
    /\ UNCHANGED <<isUploading, error, chunksProgress>>

\* The promise of upload(sel[k]) resolves, with response.ok or not: the
\* response is not looked at.  Promise.all resolves with the last of them.
UploadResolveKeeps(n, k, ok) ==
    /\ atts[n].kind = "whole"
    /\ k \in Inflight(atts[n])
    /\ LET a == Settle(atts[n], k, IF ok THEN "ok" ELSE "notok")
       IN  IF a.pc = "awaitAll" /\ Inflight(a) = {}
           THEN atts' = [atts EXCEPT ![n] = BatchSuccess(a)]
           ELSE atts' = [atts EXCEPT ![n] = a]
    /\ UNCHANGED <<isUploading, props, env, files, error, chunksProgress>>
UploadResolve(n, k, ok) ==
    /\ atts[n].kind = "whole"
    /\ k \in Inflight(atts[n])
    /\ LET a == Settle(atts[n], k, IF ok THEN "ok" ELSE "notok")
       IN  IF a.pc = "awaitAll" /\ Inflight(a) = {}
           THEN /\ atts' = [atts EXCEPT ![n] = BatchSuccess(a)]
                /\ files' = <<>>
           ELSE /\ atts' = [atts EXCEPT ![n] = a]
                /\ files' = files
    /\ UNCHANGED <<isUploading, props, env, error, chunksProgress>>

\* The promise of upload(sel[k]) rejects: Promise.all rejects with the
\* first of them, the later ones change nothing.
UploadRejectEach(n, k) ==
    /\ atts[n].kind = "whole"
    /\ k \in Inflight(atts[n])
    /\ atts' = [atts EXCEPT ![n] = BatchFail(Settle(atts[n], k, "rejected"))]
    /\ error' = UploadFailedMsg
    /\ UNCHANGED <<isUploading, props, env, files, chunksProgress>>
UploadReject(n, k) ==
    /\ atts[n].kind = "whole"
    /\ k \in Inflight(atts[n])
    /\ LET a == Settle(atts[n], k, "rejected")
       IN  IF a.pc = "awaitAll"
           THEN /\ atts' = [atts EXCEPT ![n] = BatchFail(a)]
                /\ error' = UploadFailedMsg
           ELSE /\ atts' = [atts EXCEPT ![n] = a]
                /\ error' = error
    /\ UNCHANGED <<isUploading, props, env, files, chunksProgress>>

\* ------------------------------------------------------------ submit event
\* <form onSubmit={upload ? onSubmit : onChunkSubmit}>
HandlerSwapped == IF props.mode = "upload" THEN onChunkSubmit ELSE onSubmit
Handler == IF props.mode = "upload" THEN onSubmit ELSE onChunkSubmit

\* <button type="submit" disabled={files.length === 0}>, in both forms.
UploadDisabledNever == FALSE
UploadDisabled == Len(files) = 0

\* A click on the Upload button, which works when it is not disabled.
Submit ==
    /\ env.submits > 0
    /\ ~UploadDisabled
    /\ env' = [env EXCEPT !.submits = @ - 1]
    /\ props' = props
    /\ Handler

\* A submit event sent to the form itself while the button is disabled
\* (form.requestSubmit(), fireEvent.submit(form)).
SubmitEmpty ==
    /\ env.submits > 0
    /\ UploadDisabled
    /\ env' = [env EXCEPT !.submits = @ - 1]
    /\ props' = props
    /\ Handler

Next ==
    \/ onChange
    \/ Submit
    \/ SubmitEmpty
    \/ \E n \in 1..Len(atts) : ChunkOk(n)
    \/ \E n \in 1..Len(atts) : ChunkNotOk(n)
    \/ \E n \in 1..Len(atts) : ChunkText(n)
    \/ \E n \in 1..Len(atts) : ChunkReject(n)
    \/ \E n \in 1..Len(atts) : \E k \in 1..Len(atts[n].calls) :
          \E ok \in BOOLEAN : UploadResolve(n, k, ok)
    \/ \E n \in 1..Len(atts) : \E k \in 1..Len(atts[n].calls) : UploadReject(n, k)

\* ---------------------------------------------------------------- FileList
\* fetchFiles() resolves: .then((resp) => setFiles(resp.files)), the state
\* of the FileList.
FetchResolve(n) ==
    /\ atts[n].list = "pending"
    /\ atts' = [atts EXCEPT ![n].list = "shown"]
    /\ UNCHANGED <<isUploading, props, env, files, error, chunksProgress>>

\* fetchFiles() rejects: .catch((error) => alert(error))
FetchReject(n) ==
    /\ atts[n].list = "pending"
    /\ atts' = [atts EXCEPT ![n].list = "alert"]
    /\ UNCHANGED <<isUploading, props, env, files, error, chunksProgress>>

\* The Uploader together with the fetches of its FileList.
NextListing ==
    \/ Next
    \/ \E n \in 1..Len(atts) : FetchResolve(n)
    \/ \E n \in 1..Len(atts) : FetchReject(n)

Spec == Init /\ [][Next]_vars

SpecSingle == InitSingle /\ [][Next]_vars

SpecBatch == InitBatch /\ [][Next]_vars

SpecScripted == InitScripted /\ [][Next]_vars

SpecLong == InitLong /\ [][Next]_vars

SpecRetry == InitRetry /\ [][Next]_vars

SpecListing == InitBatch /\ [][NextListing]_vars

\* Every awaited promise settles: the one of uploadChunk, the one of
\* response.text(), the ones of upload.
ChunkSettles == \E n \in 1..Len(atts) : ChunkOk(n) \/ ChunkNotOk(n) \/ ChunkReject(n)
TextSettles == \E n \in 1..Len(atts) : ChunkText(n)
UploadSettles ==
    \E n \in 1..Len(atts) : \E k \in 1..Len(atts[n].calls) :
        \/ \E ok \in BOOLEAN : UploadResolve(n, k, ok)
        \/ UploadReject(n, k)

\* One submit, of the fixture's files or of one file of up to FairSize
\* bytes, with every call settling.
InitAny == InitBatch \/ (InitSingle /\ \A f \in env.catalog : f.size <= FairSize)

SpecFair ==
    /\ InitAny
    /\ [][Next]_vars
    /\ WF_vars(ChunkSettles)
    /\ WF_vars(TextSettles)
    /\ WF_vars(UploadSettles)

\* ------------------------------------------------------------ hook variant
\* The revision of the Uploader built on hooks (Uploader with the props
\* chunked / chunkSize / withList, hooks/useChunkedUpload, hooks/useUpload).
\* Both hooks are mounted, the submit handler calls the one that `chunked`
\* selects and the other one stays in its initial state: isUploading, error
\* and chunksProgress are the state of the hook in use.  The hooks never
\* read the Response: a promise of the api resolves, or it rejects with an
\* Error, named here by its message.
Reasons == {"Failed to fetch", "Failed parsing"}

\* JSON.stringify of an Error: it has no enumerable own property.
Stringify(r) == "{}"

\* chunked = false, chunkSize = CHUNK_SIZE, withList = false by default
HookProps ==
    [chunked : {TRUE}, chunkSize : 1..MaxChunkSize, withList : BOOLEAN]
    \cup [chunked : {FALSE}, chunkSize : {CHUNK_SIZE}, withList : BOOLEAN]

\* The fixture's files and an empty one.
HookCatalog == Catalog \cup {File("c.txt", 0)}

\* One submit; the input of the whole-file form is `multiple`, the one of
\* the chunked form is not.
InitHooks ==
    /\ props \in HookProps
    /\ env = [catalog |-> HookCatalog,
              maxSel |-> IF props.chunked THEN 1 ELSE Cardinality(HookCatalog),
              submits |-> 1]
    /\ InitState

\* A run of the submit handler: what the hook's callback closes over, the
\* state of the promise upload() returned (settled, thrown) and the Error
\* each call rejected with.
HookAttempt(kind) ==
    [kind |-> kind, pc |-> "done", sel |-> files,
     file |-> IF Len(files) > 0 THEN files[1] ELSE File("", 0),
     i |-> 0, totalChunks |-> 0, calls |-> <<>>, results |-> <<>>,
     trace |-> <<>>, error0 |-> error, progress0 |-> chunksProgress,
     alone |-> \A m \in 1..Len(atts) : atts[m].pc = "done", list |-> "none",
     settled |-> "pending", thrown |-> "", reasons |-> <<>>]

\* onSubmit after the awaited upload() resolved:
\* setFiles([]); fileListRef.current?.refetch(); onSuccess()
OnSubmitResolved(a) ==
    [a EXCEPT !.pc = "done",
              !.settled = "resolved",
              !.trace = @ \o <<Ev("setFiles")>>
                          \o (IF props.withList THEN <<Ev("refetch")>> ELSE <<>>)
                          \o <<Ev("onSuccess")>>,
              !.list = IF props.withList THEN "pending" ELSE "none"]

\* onSubmit after the awaited upload() rejected: onFail(JSON.stringify(error))
OnSubmitRejected(a, r) ==
    [a EXCEPT !.pc = "done",
              !.settled = "rejected",
              !.thrown = r,
              !.trace = Append(@, EvMsg("onFail", Stringify(r)))]

\* The loop body of chunkedUpload up to its await.
HookSendChunk(a, i) ==
    [a EXCEPT !.pc = "awaitChunk",
              !.i = i,
              !.calls = Append(@, FormData(a.file, i, a.totalChunks, props.chunkSize)),
              !.results = Append(@, "pending"),
              !.reasons = Append(@, ""),
              !.trace = Append(@, EvNum("uploadChunk", i))]

\* useChunkedUpload's upload, up to its first await or, when it has none,
\* to its return and the rest of onSubmit.
chunkedUpload ==
    LET a0 == HookAttempt("chunk")
        a1 == [a0 EXCEPT !.totalChunks = TotalChunks(a0.file.size, props.chunkSize),
                         !.trace = <<EvNum("setIsUploading", 1)>>]
    IN  IF Len(files) = 0
        THEN /\ atts' = Append(atts, OnSubmitResolved(a0))
             /\ files' = <<>>
             /\ UNCHANGED <<isUploading, error, chunksProgress>>
        ELSE /\ isUploading' = TRUE
             /\ IF 0 < a1.totalChunks
                THEN /\ atts' = Append(atts, HookSendChunk(a1, 0))
                     /\ files' = files
                ELSE /\ atts' = Append(atts, OnSubmitResolved(a1))
                     /\ files' = <<>>
             /\ UNCHANGED <<error, chunksProgress>>

\* await uploadChunk(formData) resolves: setChunksProgress, finally
\* setIsUploading(false), then the next chunk or the end of the loop.
HookChunkResolve(n) ==
    /\ props.chunked
    /\ atts[n].pc = "awaitChunk"
    /\ LET a == atts[n]
           p == Percent(a.i + 1, a.totalChunks)
           a1 == [Settle(a, a.i + 1, "ok") EXCEPT
                     !.trace = @ \o <<EvNum("setChunksProgress", p),
                                      EvNum("setIsUploading", 0)>>]
       IN  /\ chunksProgress' = p
           /\ isUploading' = FALSE
           /\ IF a.i + 1 < a.totalChunks
              THEN /\ atts' = [atts EXCEPT ![n] = HookSendChunk(a1, a.i + 1)]
                   /\ files' = files
              ELSE /\ atts' = [atts EXCEPT ![n] = OnSubmitResolved(a1)]
                   /\ files' = <<>>
    /\ UNCHANGED <<props, env, error>>

\* await uploadChunk(formData) rejects: setError(error), break, finally
\* setIsUploading(false); chunkedUpload returns and its promise resolves.
HookChunkReject(n, r) ==
    /\ props.chunked
    /\ atts[n].pc = "awaitChunk"
    /\ LET a == atts[n]
           a1 == [Settle(a, a.i + 1, "rejected") EXCEPT
                     !.reasons[a.i + 1] = r,
                     !.trace = @ \o <<EvMsg("setError", r),
                                      EvNum("setIsUploading", 0)>>]
       IN  atts' = [atts EXCEPT ![n] = OnSubmitResolved(a1)]
    /\ error' = r
    /\ isUploading' = FALSE
    /\ files' = <<>>
    /\ UNCHANGED <<props, env, chunksProgress>>

\* for (const file of files) promises.push(uploadSingle(file))
RECURSIVE HookPushAll(_, _)
HookPushAll(a, k) ==
    IF k > Len(a.sel) THEN a
    ELSE HookPushAll([a EXCEPT !.calls = Append(@, a.sel[k]),
                               !.results = Append(@, "pending"),
                               !.reasons = Append(@, ""),
                               !.trace = Append(@, EvNum("uploadSingle", k))], k + 1)

\* useUpload's upload, up to await Promise.all(promises); Promise.all of no
\* promise is resolved at once.
upload ==
    LET a0 == HookAttempt("whole")
        a1 == HookPushAll([a0 EXCEPT !.trace = <<EvNum("setIsUploading", 1)>>], 1)
    IN  IF Len(files) = 0
        THEN /\ atts' = Append(atts, OnSubmitResolved(
                           [a1 EXCEPT !.trace = Append(@, EvNum("setIsUploading", 0))]))
             /\ isUploading' = FALSE
             /\ files' = <<>>
             /\ UNCHANGED <<error, chunksProgress>>
        ELSE /\ atts' = Append(atts, [a1 EXCEPT !.pc = "awaitAll"])
             /\ isUploading' = TRUE
             /\ UNCHANGED <<files, error, chunksProgress>>

\* The promise of uploadSingle(sel[k]) resolves; with the last of them
\* Promise.all resolves: finally setIsUploading(false), upload() resolves.
HookUploadResolve(n, k) ==
    /\ ~props.chunked
    /\ k \in Inflight(atts[n])
    /\ LET a == Settle(atts[n], k, "ok")
       IN  IF a.pc = "awaitAll" /\ Inflight(a) = {}
           THEN /\ atts' = [atts EXCEPT ![n] = OnSubmitResolved(
                               [a EXCEPT !.trace = Append(@, EvNum("setIsUploading", 0))])]
                /\ isUploading' = FALSE
                /\ files' = <<>>
           ELSE /\ atts' = [atts EXCEPT ![n] = a]
                /\ UNCHANGED <<isUploading, files>>
    /\ UNCHANGED <<props, env, error, chunksProgress>>

\* The promise of uploadSingle(sel[k]) rejects; Promise.all rejects with the
\* first of them: setError(error), throw error, finally setIsUploading(false).
HookUploadRejectSwallows(n, k, r) ==
    /\ ~props.chunked
    /\ k \in Inflight(atts[n])
    /\ LET a == [Settle(atts[n], k, "rejected") EXCEPT !.reasons[k] = r]
       IN  IF a.pc = "awaitAll"
           THEN /\ atts' = [atts EXCEPT ![n] = OnSubmitResolved(
                               [a EXCEPT !.trace = @ \o <<EvMsg("setError", r),
                                                          EvNum("setIsUploading", 0)>>])]
                /\ error' = r
                /\ isUploading' = FALSE
                /\ files' = <<>>
           ELSE /\ atts' = [atts EXCEPT ![n] = a]
                /\ UNCHANGED <<isUploading, error, files>>
    /\ UNCHANGED <<props, env, chunksProgress>>
HookUploadReject(n, k, r) ==
    /\ ~props.chunked
    /\ k \in Inflight(atts[n])
    /\ LET a == [Settle(atts[n], k, "rejected") EXCEPT !.reasons[k] = r]
       IN  IF a.pc = "awaitAll"
           THEN /\ atts' = [atts EXCEPT ![n] = OnSubmitRejected(
                               [a EXCEPT !.trace = @ \o <<EvMsg("setError", r),
                                                          EvNum("setIsUploading", 0)>>], r)]
                /\ error' = r
                /\ isUploading' = FALSE
           ELSE /\ atts' = [atts EXCEPT ![n] = a]
                /\ UNCHANGED <<isUploading, error>>
    /\ UNCHANGED <<props, env, files, chunksProgress>>

\* chunked ? await startChunkedUpload() : await startUpload()
HookOnSubmit == IF props.chunked THEN chunkedUpload ELSE upload

\* A click on the Upload button, disabled={files.length === 0}.
HookSubmit ==
    /\ env.submits > 0
    /\ ~UploadDisabled
    /\ env' = [env EXCEPT !.submits = @ - 1]
    /\ props' = props
    /\ HookOnSubmit

\* A submit event sent to the form itself while the button is disabled.
HookSubmitEmpty ==
    /\ env.submits > 0
    /\ UploadDisabled
    /\ env' = [env EXCEPT !.submits = @ - 1]
    /\ props' = props
    /\ HookOnSubmit

NextHooks ==
    \/ onChange
    \/ HookSubmit
    \/ HookSubmitEmpty
    \/ \E n \in 1..Len(atts) : HookChunkResolve(n)
    \/ \E n \in 1..Len(atts) : \E r \in Reasons : HookChunkReject(n, r)
    \/ \E n \in 1..Len(atts) : \E k \in 1..Len(atts[n].calls) : HookUploadResolve(n, k)
    \/ \E n \in 1..Len(atts) : \E k \in 1..Len(atts[n].calls) : \E r \in Reasons :
           HookUploadReject(n, k, r)

SpecHooks == InitHooks /\ [][NextHooks]_vars

\* =================================================================== claims
\* How often the effect e occurs in a trace.
Count(tr, e) == Cardinality({k \in 1..Len(tr) : tr[k].ev = e})

\* The values an attempt passed to setChunksProgress, in order.
IsProgress(x) == x.ev = "setChunksProgress"
ProgressLog(a) == [k \in 1..Len(SelectSeq(a.trace, IsProgress)) |->
                      SelectSeq(a.trace, IsProgress)[k].num]

\* The messages an attempt passed to onFail, in order.
IsOnFail(x) == x.ev = "onFail"
FailLog(a) == [k \in 1..Len(SelectSeq(a.trace, IsOnFail)) |->
                  SelectSeq(a.trace, IsOnFail)[k].msg]

Dispatched(a) == Len(a.sel) > 0
IsFailure(r) == r \in {"notok", "rejected"}
Failed(a) == \E j \in 1..Len(a.results) : IsFailure(a.results[j])
AllOk(a) == \A j \in 1..Len(a.results) : a.results[j] = "ok"
ChunkAtts == {n \in 1..Len(atts) : atts[n].kind = "chunk"}

\* Reading a decimal string back, as the receiver of the FormData does.
DigitValue(c) == CHOOSE d \in 0..9 : Digits[d + 1] = c
RECURSIVE parseInt(_)
parseInt(str) ==
    IF Len(str) = 0 THEN 0
    ELSE 10 * parseInt(SubSeq(str, 1, Len(str) - 1)) + DigitValue(str[Len(str)])

RECURSIVE BytesSent(_)
BytesSent(calls) ==
    IF Len(calls) = 0 THEN 0
    ELSE (calls[1].file.to - calls[1].file.from) + BytesSent(Tail(calls))

\* C1 - every submit made with a non-empty selection invokes exactly one of
\* onSuccess / onFail, exactly once: never both while it runs, and one of
\* them once it is over.
C1_NotificationExclusivity ==
    \A n \in 1..Len(atts) :
        LET a == atts[n]
            notes == Count(a.trace, "onSuccess") + Count(a.trace, "onFail")
        IN  Dispatched(a) =>
                /\ notes <= 1
                /\ a.pc = "done" => notes = 1

\* C2 - a chunked run in which a chunk failed never invokes onSuccess.
C2_NoSuccessAfterAbort ==
    \A n \in ChunkAtts :
        Failed(atts[n]) => Count(atts[n].trace, "onSuccess") = 0

\* C3 - fail-fast: when the call for chunk k fails, exactly k + 1 adapter
\* calls are made in that attempt, and onFail("Chunked upload failed") is
\* invoked exactly once.
C3_FailFast ==
    \A n \in ChunkAtts :
        LET a == atts[n]
        IN  \A j \in 1..Len(a.results) :
                IsFailure(a.results[j]) =>
                    /\ Len(a.calls) = j
                    /\ a.pc = "done" => FailLog(a) = <<ChunkFailedMsg>>

\* Scenario C: at least 3 planned chunks, chunk 1 failed, 2 calls made.
C3_Witness ==
    \E n \in ChunkAtts :
        /\ atts[n].totalChunks >= 3
        /\ atts[n].pc = "done"
        /\ Len(atts[n].results) = 2
        /\ atts[n].results[1] = "ok"
        /\ IsFailure(atts[n].results[2])

\* C4 - in a chunked attempt at most one request is in flight, the call for
\* chunk i + 1 is made only after chunk i was answered Ok, and the adapter
\* sees the indices 0, 1, 2, ... in order with none skipped.
C4_OneAtATimeInOrder ==
    \A n \in ChunkAtts :
        LET a == atts[n]
        IN  /\ Cardinality(Inflight(a)) <= 1
            /\ \A j \in 1..Len(a.calls) :
                  /\ parseInt(a.calls[j].currentChunkIndex) = j - 1
                  /\ a.calls[j].file.from = (j - 1) * props.chunkSize
                  /\ j < Len(a.calls) => a.results[j] = "ok"

\* The third chunk is in flight after two accepted ones.
C4_Witness ==
    \E n \in ChunkAtts :
        /\ Len(atts[n].calls) >= 3
        /\ Inflight(atts[n]) = {Len(atts[n].calls)}

\* C5 - chunk i is the byte range [i*chunkSize, min(fileSize, (i+1)*chunkSize));
\* the ranges are contiguous from 0 without overlap, and once all
\* totalChunks of them are cut they end at fileSize and their lengths sum
\* to fileSize.
C5_PartitionComplete ==
    \A n \in ChunkAtts :
        LET a == atts[n]
            cs == props.chunkSize
            size == a.file.size
        IN  /\ \A j \in 1..Len(a.calls) :
                  LET b == a.calls[j].file
                  IN  /\ b.of = a.file
                      /\ b.from = (j - 1) * cs
                      /\ b.to = (IF j * cs < size THEN j * cs ELSE size)
                      /\ b.from = (IF j = 1 THEN 0 ELSE a.calls[j - 1].file.to)
            /\ (Dispatched(a) /\ Len(a.calls) = a.totalChunks) =>
                  /\ BytesSent(a.calls) = size
                  /\ Len(a.calls) > 0 => a.calls[Len(a.calls)].file.to = size

\* A file whose last chunk is shorter than chunkSize was cut completely.
C5_Witness ==
    \E n \in ChunkAtts :
        /\ atts[n].totalChunks >= 3
        /\ Len(atts[n].calls) = atts[n].totalChunks
        /\ atts[n].file.size % props.chunkSize # 0

\* C6 - totalChunks is ceil(fileSize / chunkSize) for fileSize > 0, and every
\* payload carries its zero-based position, that totalChunks and the name
\* of the file being uploaded.
C6_CountAndMetadata ==
    \A n \in ChunkAtts :
        LET a == atts[n]
            cs == props.chunkSize
        IN  Dispatched(a) =>
                /\ a.sel[1].size > 0 =>
                      /\ a.totalChunks * cs >= a.sel[1].size
                      /\ (a.totalChunks - 1) * cs < a.sel[1].size
                /\ \A j \in 1..Len(a.calls) :
                      /\ parseInt(a.calls[j].currentChunkIndex) = j - 1
                      /\ j - 1 < a.totalChunks
                      /\ parseInt(a.calls[j].totalChunks) = a.totalChunks
                      /\ a.calls[j].filename = a.sel[1].name

\* A run of ten or more chunks (two-digit fields) with a short last chunk.
C6_Witness ==
    \E n \in ChunkAtts :
        /\ atts[n].totalChunks >= 10
        /\ Len(atts[n].calls) = atts[n].totalChunks
        /\ atts[n].file.size % props.chunkSize # 0

\* C7 as stated - across a run whose chunks are all Ok, the percentage
\* strictly increases with each completed chunk, for every totalChunks >= 1,
\* and is exactly 100 after the last chunk.
C7_StrictlyIncreasing ==
    \A n \in ChunkAtts :
        LET a == atts[n]
            pl == ProgressLog(a)
        IN  AllOk(a) =>
                /\ \A k \in 2..Len(pl) : pl[k] > pl[k - 1]
                /\ (a.pc = "done" /\ a.totalChunks >= 1) => pl[Len(pl)] = 100

\* C7 amended - across a run whose chunks are all Ok, the percentage never
\* decreases with a completed chunk, strictly increases with each when
\* totalChunks <= 100, and is exactly 100 after the last chunk.
C7_IncreasingUpTo100Chunks ==
    \A n \in ChunkAtts :
        LET a == atts[n]
            pl == ProgressLog(a)
        IN  AllOk(a) =>
                /\ \A k \in 2..Len(pl) : pl[k] >= pl[k - 1]
                /\ a.totalChunks <= 100 => \A k \in 2..Len(pl) : pl[k] > pl[k - 1]
                /\ (a.pc = "done" /\ a.totalChunks >= 1) =>
                      /\ Len(pl) = a.totalChunks
                      /\ pl[Len(pl)] = 100

\* A successful run of 100 or more chunks is over.
C7_Witness ==
    \E n \in ChunkAtts :
        /\ atts[n].totalChunks >= 100
        /\ atts[n].pc = "done"
        /\ AllOk(atts[n])
        /\ chunksProgress = 100

\* C8 - percentComplete is an integer in 0..100 in every state; within one
\* chunked attempt (one that no other attempt overlaps) it never decreases,
\* from the value the attempt starts with on; after chunk i is accepted it
\* is round(((i+1)/totalChunks)*100).
C8_ProgressRangeAndMonotone ==
    /\ chunksProgress \in 0..100
    /\ \A n \in ChunkAtts :
          LET a == atts[n]
              pl == <<a.progress0>> \o ProgressLog(a)
          IN  /\ (n = Len(atts) /\ a.alone) => \A k \in 2..Len(pl) : pl[k] >= pl[k - 1]
              /\ \A k \in 2..Len(pl) :
                    pl[k] = (200 * (k - 1) + a.totalChunks) \div (2 * a.totalChunks)

\* C9 - percentComplete is 0 from the start of a chunked attempt until its
\* first chunk is accepted (for an attempt that no other attempt overlaps).
C9_ProgressResetAtStart ==
    \A n \in ChunkAtts :
        LET a == atts[n]
        IN  (/\ n = Len(atts)
             /\ a.alone
             /\ Dispatched(a)
             /\ a.pc = "awaitChunk"
             /\ a.i = 0) => chunksProgress = 0

\* C10 - the error message is cleared when a new attempt begins: after an
\* attempt that began with no other attempt running, was followed by none,
\* and succeeded completely, the error is empty.
C10_ErrorClearedByNewAttempt ==
    \A n \in 1..Len(atts) :
        LET a == atts[n]
        IN  (/\ n = Len(atts)
             /\ a.alone
             /\ Dispatched(a)
             /\ a.pc = "done"
             /\ AllOk(a)
             /\ Count(a.trace, "onFail") = 0) => error = ""

\* Attempt n reaches the end of its handler in this step.
Completes(n) == atts[n].pc # "done" /\ atts'[n].pc = "done"

IsSetError(x) == x.ev = "setError"
WholeAtts == {n \in 1..Len(atts) : atts[n].kind = "whole"}
Rejected(a) == \E j \in 1..Len(a.results) : a.results[j] = "rejected"

\* A failed attempt: a chunk that failed, or a rejected whole-file transfer.
FailedAttempt(a) == IF a.kind = "chunk" THEN Failed(a) ELSE Rejected(a)

\* C11 - the step that ends a whole-file batch whose transfers all
\* succeeded leaves the Selection empty; the step that ends a failed attempt
\* (a failed chunk, a rejected transfer) leaves the Selection as it was, and
\* it was submitted non-empty.
C11_SelectionClearing ==
    [][\A n \in 1..Len(atts) :
          Completes(n) =>
              /\ (atts'[n].kind = "whole" /\ AllOk(atts'[n])) => files' = <<>>
              /\ FailedAttempt(atts'[n]) =>
                    /\ files' = files
                    /\ Len(atts[n].sel) > 0
                    /\ Count(atts'[n].trace, "setFiles") = 0]_vars

\* A batch of two files failed and the Selection is still the submitted one.
C11_Witness ==
    \E n \in WholeAtts :
        /\ atts[n].pc = "done"
        /\ Rejected(atts[n])
        /\ Len(atts[n].sel) = 2
        /\ files = atts[n].sel

\* C12 - after a chunked transfer whose chunks were all Ok (started with no
\* other attempt running and followed by none) the Selection is empty.
C12_ChunkedSuccessClears ==
    \A n \in ChunkAtts :
        LET a == atts[n]
        IN  (/\ n = Len(atts)
             /\ a.alone
             /\ Dispatched(a)
             /\ a.pc = "done"
             /\ AllOk(a)) => files = <<>>

\* C13 - a batch with at least one rejected call, or several, is over: the
\* error is the upload message, onFail was invoked exactly once with it,
\* onSuccess not at all, and the Selection was not cleared.
C13_BatchAllOrNothing ==
    \A n \in WholeAtts :
        LET a == atts[n]
        IN  Rejected(a) =>
                /\ a.pc = "done"
                /\ error = UploadFailedMsg
                /\ FailLog(a) = <<UploadFailedMsg>>
                /\ Len(SelectSeq(a.trace, IsSetError)) = 1
                /\ Count(a.trace, "onSuccess") = 0
                /\ Count(a.trace, "setFiles") = 0

\* Both calls of a batch of two were rejected.
C13_Witness ==
    \E n \in WholeAtts :
        /\ Len(atts[n].results) = 2
        /\ \A j \in 1..2 : atts[n].results[j] = "rejected"

\* C14 - a whole-file call that resolves with a response that is not Ok
\* makes the batch fail like a rejection does: no onSuccess, no clearing of
\* the Selection, and one onFail with the upload message once it is over.
C14_NonOkResponseFailsBatch ==
    \A n \in WholeAtts :
        LET a == atts[n]
        IN  (\E j \in 1..Len(a.results) : a.results[j] = "notok") =>
                /\ Count(a.trace, "onSuccess") = 0
                /\ Count(a.trace, "setFiles") = 0
                /\ a.pc = "done" => FailLog(a) = <<UploadFailedMsg>>

\* What a chunked attempt that failed at its j-th call has done, whatever
\* the kind of the failure.
RECURSIVE ChunkSteps(_, _, _)
ChunkSteps(j, total, k) ==
    IF k >= j THEN <<EvNum("uploadChunk", j - 1)>>
    ELSE <<EvNum("uploadChunk", k - 1), EvNum("setChunksProgress", Percent(k, total))>>
         \o ChunkSteps(j, total, k + 1)

\* C15 - a chunk answered with a response that is not Ok and a chunk
\* whose call is rejected end the attempt alike: the error is the chunk
\* message, it was set and onFail invoked exactly once, the progress was not
\* advanced for the failed chunk, no further chunk was sent, and two attempts
\* on the same file failing at the same chunk leave the same trace.
C15_ChunkFailuresAlike ==
    \A n \in ChunkAtts :
        LET a == atts[n]
            j == Len(a.calls)
        IN  (a.pc = "done" /\ Failed(a)) =>
                /\ error = ChunkFailedMsg
                /\ IsFailure(a.results[j])
                /\ FailLog(a) = <<ChunkFailedMsg>>
                /\ Len(SelectSeq(a.trace, IsSetError)) = 1
                /\ Len(ProgressLog(a)) = j - 1
                /\ SubSeq(a.trace, 1, 2 * j - 1) = ChunkSteps(j, a.totalChunks, 1)
                /\ \A m \in ChunkAtts :
                      (/\ atts[m].pc = "done"
                       /\ Failed(atts[m])
                       /\ atts[m].file = a.file
                       /\ Len(atts[m].calls) = j) => atts[m].trace = a.trace

\* The same chunk of the same file failed once by a response that is not
\* Ok and once by a rejection.
C15_Witness ==
    \E n, m \in ChunkAtts :
        /\ atts[n].pc = "done" /\ atts[m].pc = "done"
        /\ atts[n].file = atts[m].file
        /\ Len(atts[n].calls) = 2 /\ Len(atts[m].calls) = 2
        /\ atts[n].results[2] = "notok"
        /\ atts[m].results[2] = "rejected"

\* C16 - the whole-file adapter is called exactly once per file of the
\* Selection, in its order, and all the calls come before anything else the
\* attempt does, so that no outcome of one keeps a sibling from being sent.
C16_DispatchAllInOrder ==
    \A n \in WholeAtts :
        LET a == atts[n]
        IN  /\ a.calls = a.sel
            /\ Len(a.results) = Len(a.sel)
            /\ Len(a.trace) >= Len(a.sel)
            /\ \A k \in 1..Len(a.sel) : a.trace[k] = EvNum("upload", k)
            /\ Count(a.trace, "upload") = Len(a.sel)

\* A batch of two whose first call was rejected: the second was sent all
\* the same, and answered.
C16_Witness ==
    \E n \in WholeAtts :
        /\ atts[n].results = <<"rejected", "ok">>
        /\ atts[n].calls = atts[n].sel
        /\ Count(atts[n].trace, "upload") = 2

\* C17 (as stated) - nothing is reported for a batch, neither onSuccess nor
\* onFail nor the error, while one of its calls is still in flight.
C17_OutcomeAfterAllSettled ==
    \A n \in WholeAtts :
        LET a == atts[n]
        IN  (\/ Count(a.trace, "onSuccess") > 0
             \/ Count(a.trace, "onFail") > 0
             \/ Count(a.trace, "setError") > 0) => Inflight(a) = {}

\* C17 (amended) - onSuccess, with the refresh and the clearing, comes
\* only when every call of the batch has settled; the error and onFail come
\* with the first rejection, whether or not siblings are still in flight, and
\* with nothing else.
C17_SuccessAfterAllFailureAtFirst ==
    \A n \in WholeAtts :
        LET a == atts[n]
        IN  /\ (\/ Count(a.trace, "onSuccess") > 0
                \/ Count(a.trace, "setFiles") > 0
                \/ Count(a.trace, "refetch") > 0) => Inflight(a) = {}
            /\ Rejected(a) <=> Count(a.trace, "onFail") = 1
            /\ Rejected(a) <=> Count(a.trace, "setError") = 1
            /\ Count(a.trace, "onFail") <= 1
            /\ Count(a.trace, "setError") <= 1

\* A batch reported as failed while its other call is still in flight.
C17_Witness ==
    \E n \in WholeAtts :
        /\ Count(atts[n].trace, "onFail") = 1
        /\ atts[n].results = <<"rejected", "pending">>

\* The positions of the adapter calls and of the refetch in a trace.
CallAt(tr) == {k \in 1..Len(tr) : tr[k].ev \in {"upload", "uploadChunk"}}
RefetchAt(tr) == {k \in 1..Len(tr) : tr[k].ev = "refetch"}

\* C18 - with a list attached, a chunked transfer has refetched exactly
\* once when it is over, completed or aborted, and not before; a whole-file
\* batch has refetched exactly once when it has succeeded, and never when it
\* has failed or is still running; the refetch follows every adapter call.
C18_RefreshOncePerTransfer ==
    props.fetchFiles =>
        \A n \in 1..Len(atts) :
            LET a == atts[n]
                r == Count(a.trace, "refetch")
            IN  /\ a.kind = "chunk" =>
                      r = IF Dispatched(a) /\ a.pc = "done" THEN 1 ELSE 0
                /\ a.kind = "whole" =>
                      r = IF a.pc = "done" /\ ~Rejected(a) THEN 1 ELSE 0
                /\ \A k \in RefetchAt(a.trace) : \A c \in CallAt(a.trace) : c < k

\* An aborted chunked transfer and a list attached: one refetch.
C18_Witness ==
    /\ props.fetchFiles
    /\ \E n \in ChunkAtts :
           /\ atts[n].pc = "done"
           /\ Failed(atts[n])
           /\ Count(atts[n].trace, "refetch") = 1

\* C19 - a submit with an empty Selection calls no adapter, in the one
\* mode and in the other.
C19_EmptySubmitNoCall ==
    \A n \in 1..Len(atts) :
        Len(atts[n].sel) = 0 =>
            /\ atts[n].calls = <<>>
            /\ atts[n].results = <<>>
            /\ CallAt(atts[n].trace) = {}

\* The chunked form was submitted with nothing selected.
C19_Witness ==
    \E n \in ChunkAtts : Len(atts[n].sel) = 0 /\ atts[n].pc = "done"

\* C20 - the Upload button is enabled exactly when the Selection is not
\* empty: it is disabled at the start, in every state it is disabled iff no
\* file is selected, and the step that ends a successful whole-file batch
\* leaves it disabled.
C20_SubmitEnabledIffSelected ==
    [][/\ atts = <<>> /\ files = <<>> => UploadDisabled
       /\ UploadDisabled <=> Len(files) = 0
       /\ UploadDisabled' <=> Len(files') = 0
       /\ \A n \in 1..Len(atts) :
             (Completes(n) /\ atts[n].kind = "whole" /\ ~Rejected(atts'[n]))
                 => UploadDisabled']_vars

\* A batch of a non-empty Selection has succeeded and the button is
\* disabled again.
C20_Witness ==
    /\ UploadDisabled
    /\ \E n \in WholeAtts :
           /\ atts[n].pc = "done"
           /\ Len(atts[n].sel) > 0
           /\ AllOk(atts[n])

\* C21 - every call of a chunked attempt carries bytes and name of the
\* first file of the submitted Selection, and as many calls are made as that
\* file has chunks, however many files were selected.
C21_ChunkedFirstFileOnly ==
    \A n \in ChunkAtts :
        LET a == atts[n]
        IN  Dispatched(a) =>
                /\ a.file = a.sel[1]
                /\ a.totalChunks = TotalChunks(a.sel[1].size, props.chunkSize)
                /\ Len(a.calls) <= a.totalChunks
                /\ \A j \in 1..Len(a.calls) :
                      /\ a.calls[j].file.of = a.sel[1]
                      /\ a.calls[j].filename = a.sel[1].name

\* Two files were selected in the chunked form, b.txt first, and the
\* transfer is over after the one chunk of b.txt.
C21_Witness ==
    \E n \in ChunkAtts :
        /\ atts[n].sel = <<File("b.txt", 1), File("a.txt", 2)>>
        /\ atts[n].pc = "done"
        /\ AllOk(atts[n])
        /\ Len(atts[n].calls) = 1

\* C22 - within one attempt no chunk index goes to the chunk adapter
\* twice and no selected file goes to the whole-file adapter twice, a failure
\* or not: the calls are as many as the adapter events of the trace, at most
\* one per chunk or per file.
C22_NoRetry ==
    \A n \in 1..Len(atts) :
        LET a == atts[n]
        IN  /\ Cardinality(CallAt(a.trace)) = Len(a.calls)
            /\ \A j, k \in 1..Len(a.calls) :
                  IF a.kind = "chunk"
                  THEN a.calls[j].currentChunkIndex = a.calls[k].currentChunkIndex
                           => j = k
                  ELSE a.calls[j] = a.calls[k] => j = k
            /\ Len(a.calls) <= IF a.kind = "chunk" THEN a.totalChunks ELSE Len(a.sel)

\* The first of two chunks failed and the attempt ended with that one call.
C22_Witness ==
    \E n \in ChunkAtts :
        /\ atts[n].pc = "done"
        /\ atts[n].totalChunks = 2
        /\ atts[n].results = <<"rejected">>
        /\ Len(atts[n].calls) = 1

\* C23 - a change event replaces the Selection by the file list it
\* carries, in its order, whatever the Selection was, and leaves it alone
\* when it carries none; it changes neither the error nor the progress.
C23_SelectReplacesWholesale ==
    [][(atts' = atts /\ env'.submits = env.submits) =>
          /\ files' = IF env'.picked = <<>> THEN files ELSE env'.picked[1]
          /\ error' = error
          /\ chunksProgress' = chunksProgress]_vars

\* After a chunked transfer of a.txt that failed at its second chunk,
\* b.txt and a.txt were selected in its place, and a change event without
\* file list has then left that Selection, the error and the progress alone.
C23_Witness ==
    /\ env.picked = <<>>
    /\ files = <<File("b.txt", 1), File("a.txt", 2)>>
    /\ error = ChunkFailedMsg
    /\ chunksProgress = 50
    /\ \E n \in ChunkAtts : atts[n].sel = <<File("a.txt", 2)>>

\* C24 - a chunked submit of a file of size 0 computes totalChunks = 0,
\* never enters the loop and is over at once: no adapter call, no error set,
\* no onFail, no progress set, and the progress still at 0.
C24_ZeroByteFile ==
    \A n \in ChunkAtts :
        LET a == atts[n]
        IN  (Dispatched(a) /\ a.sel[1].size = 0) =>
                /\ a.totalChunks = 0
                /\ a.pc = "done"
                /\ a.calls = <<>>
                /\ CallAt(a.trace) = {}
                /\ Len(SelectSeq(a.trace, IsSetError)) = 0
                /\ FailLog(a) = <<>>
                /\ ProgressLog(a) = <<>>
                /\ error = ""
                /\ chunksProgress = 0

\* An empty file was submitted in the chunked form.
C24_Witness ==
    \E n \in ChunkAtts :
        /\ atts[n].sel = <<File("a.txt", 0)>>
        /\ atts[n].pc = "done"
        /\ atts[n].trace # <<>>

\* C25 - a submit runs the handler of the configured adapter and no
\* other: with upload configured every attempt is a whole-file batch whose
\* calls are the selected files and none goes to uploadChunk, with
\* uploadChunk configured every attempt is a chunked transfer whose calls are
\* chunks and none goes to upload; and a click on the enabled button does
\* start such an attempt.
C25_RouteByMode ==
    /\ \A n \in 1..Len(atts) :
          LET a == atts[n]
              wrong == IF props.mode = "upload" THEN "uploadChunk" ELSE "upload"
          IN  /\ a.kind = IF props.mode = "upload" THEN "whole" ELSE "chunk"
              /\ Count(a.trace, wrong) = 0
              /\ \A j \in 1..Len(a.calls) :
                    IF props.mode = "upload"
                    THEN a.calls[j] = a.sel[j]
                    ELSE a.calls[j].filename = a.sel[1].name
    /\ (env.submits > 0 /\ ~UploadDisabled) => ENABLED Submit

\* Both files went to upload and nothing to uploadChunk.
C25_Witness ==
    /\ props.mode = "upload"
    /\ \E n \in WholeAtts :
           /\ Count(atts[n].trace, "upload") = 2
           /\ Count(atts[n].trace, "uploadChunk") = 0
           /\ atts[n].pc = "done"

\* What a chunked attempt ends as: Completed, every chunk sent and Ok, or
\* Aborted, the last chunk sent being the one that failed.
Completed(a) == AllOk(a) /\ Len(a.calls) = a.totalChunks
Aborted(a) ==
    /\ Len(a.calls) > 0
    /\ IsFailure(a.results[Len(a.calls)])
    /\ \A j \in 1..(Len(a.calls) - 1) : a.results[j] = "ok"

\* C26 - when every call settles, every submit handler that has started
\* comes to its end; a chunked one has then made at most totalChunks calls
\* and is Completed or Aborted, a batch has reported a success or a failure.
C26_Termination ==
    /\ [](\A n \in 1..Len(atts) :
             LET a == atts[n]
             IN  /\ a.kind = "chunk" => Len(a.calls) <= a.totalChunks
                 /\ (a.pc = "done" /\ Dispatched(a)) =>
                       IF a.kind = "chunk"
                       THEN Completed(a) \/ Aborted(a)
                       ELSE Count(a.trace, "onSuccess") + Count(a.trace, "onFail") = 1)
    /\ \A n \in 1..MaxAttempts :
          (Len(atts) >= n) ~> (Len(atts) >= n /\ atts[n].pc = "done")

\* A chunked transfer of three chunks has run to its end.
C26_Witness ==
    \E n \in ChunkAtts :
        /\ atts[n].pc = "done"
        /\ atts[n].totalChunks = 3
        /\ Completed(atts[n])

\* C27 - the refetch is not waited for: from the moment an attempt has
\* called it the attempt is over, onSuccess invoked and, for a batch, the
\* Selection cleared in that same step; and the step in which the listing
\* fetch resolves or rejects changes nothing of the attempt or of the
\* Uploader's state.
C27_RefreshNotAwaited ==
    [][\A n \in 1..Len(atts') :
          LET b == atts'[n]
          IN  /\ b.list # "none" =>
                    /\ b.pc = "done"
                    /\ Count(b.trace, "onSuccess") = 1
                    /\ b.kind = "whole" => Count(b.trace, "setFiles") = 1
              /\ (b.list = "pending" /\ b.kind = "whole"
                    /\ (n > Len(atts) \/ atts[n].list = "none")) => files' = <<>>
              /\ (n <= Len(atts) /\ atts[n].list = "pending" /\ b.list # "pending") =>
                    /\ [b EXCEPT !.list = "pending"] = atts[n]
                    /\ files' = files
                    /\ error' = error
                    /\ chunksProgress' = chunksProgress]_vars

\* The listing fetch of a successful batch has failed: the batch is still
\* a success and the Selection cleared.
C27_Witness ==
    \E n \in WholeAtts :
        /\ atts[n].list = "alert"
        /\ Len(atts[n].sel) = 2
        /\ Count(atts[n].trace, "onSuccess") = 1
        /\ Count(atts[n].trace, "onFail") = 0
        /\ files = <<>>

\* C28 - a submit with an empty Selection does nothing at all, in the one
\* mode and in the other: its handler makes no call, invokes neither
\* onSuccess nor onFail, triggers no refetch and sets neither the error nor
\* the progress.
C28_EmptySubmitNoOp ==
    \A n \in 1..Len(atts) :
        Len(atts[n].sel) = 0 =>
            /\ CallAt(atts[n].trace) = {}
            /\ Count(atts[n].trace, "onSuccess") = 0
            /\ Count(atts[n].trace, "onFail") = 0
            /\ Count(atts[n].trace, "refetch") = 0
            /\ Count(atts[n].trace, "setError") = 0
            /\ Count(atts[n].trace, "setChunksProgress") = 0

\* The number of bytes of a sent chunk.
ChunkBytes(c) == c.file.to - c.file.from

\* C29 - of a file that is not empty every chunk sent but the last has
\* exactly chunkSize bytes and the last has 1 to chunkSize bytes: none is
\* empty, none is longer than chunkSize.
C29_ChunkSizes ==
    \A n \in ChunkAtts :
        LET a == atts[n]
        IN  (Dispatched(a) /\ a.file.size > 0) =>
                \A j \in 1..Len(a.calls) :
                    /\ j < a.totalChunks => ChunkBytes(a.calls[j]) = props.chunkSize
                    /\ j = a.totalChunks =>
                          ChunkBytes(a.calls[j]) =
                              a.file.size - (a.totalChunks - 1) * props.chunkSize
                    /\ ChunkBytes(a.calls[j]) >= 1
                    /\ ChunkBytes(a.calls[j]) <= props.chunkSize

\* Five bytes in chunks of two: two full chunks and a last one of one byte.
C29_Witness ==
    \E n \in ChunkAtts :
        /\ atts[n].file.size = 5
        /\ props.chunkSize = 2
        /\ Len(atts[n].calls) = 3
        /\ ChunkBytes(atts[n].calls[3]) = 1

\* The positions of the effect e in a trace.
At(tr, e) == {k \in 1..Len(tr) : tr[k].ev = e}

\* C30 - at the end of an attempt the effects come in this order: onFail
\* before the refetch and the refetch before onSuccess in a chunked transfer;
\* the refetch before onSuccess in a whole-file batch, whose step of success
\* is also the one that clears the Selection.
C30_OrderOfEffects ==
    [][\A n \in 1..Len(atts') :
          LET b == atts'[n]
              new == n > Len(atts) \/ Count(atts[n].trace, "onSuccess") = 0
          IN  /\ \A r \in At(b.trace, "refetch") :
                    /\ \A f \in At(b.trace, "onFail") : f < r
                    /\ \A g \in At(b.trace, "onSuccess") : r < g
              /\ \A f \in At(b.trace, "onFail") :
                    \A g \in At(b.trace, "onSuccess") : f < g
              /\ (b.kind = "whole" /\ Count(b.trace, "onSuccess") = 1 /\ new) =>
                    /\ files' = <<>>
                    /\ b.pc = "done"
                    /\ At(b.trace, "setFiles") = {Len(b.trace)}]_vars

\* A chunked transfer aborted with a list attached: onFail, the refetch,
\* onSuccess, in this order.
C30_Witness ==
    \E n \in ChunkAtts :
        LET tr == atts[n].trace
        IN  /\ Len(tr) >= 3
            /\ tr[Len(tr) - 2].ev = "onFail"
            /\ tr[Len(tr) - 1].ev = "refetch"
            /\ tr[Len(tr)].ev = "onSuccess"

\* C31 - a chunked attempt that started with the progress at 0 and
\* aborted at chunk k (k chunks accepted before it) leaves the progress at
\* the value the last accepted chunk set, round(k / totalChunks * 100), and
\* at 0 when k = 0.
C31_FailureKeepsProgress ==
    \A n \in ChunkAtts :
        LET a == atts[n]
            k == Len(a.calls) - 1
        IN  (/\ n = Len(atts)
             /\ a.alone
             /\ a.progress0 = 0
             /\ a.pc = "done"
             /\ Failed(a)) =>
                /\ chunksProgress = IF k = 0 THEN 0 ELSE Percent(k, a.totalChunks)
                /\ ProgressLog(a) = [j \in 1..k |-> Percent(j, a.totalChunks)]

\* The third of four chunks was rejected and the progress is left at 50.
C31_Witness ==
    \E n \in ChunkAtts :
        /\ atts[n].pc = "done"
        /\ atts[n].totalChunks = 4
        /\ atts[n].results = <<"ok", "ok", "rejected">>
        /\ chunksProgress = 50

\* C32 (as stated) - in a chunked attempt started with the progress at
\* 0, the progress is 100 only when all the totalChunks chunks have been
\* accepted, whatever totalChunks >= 1 is.
C32_HundredOnlyWhenComplete ==
    \A n \in ChunkAtts :
        LET a == atts[n]
        IN  (/\ n = Len(atts) /\ a.alone /\ a.progress0 = 0
             /\ a.totalChunks >= 1
             /\ chunksProgress = 100) =>
                /\ Len(ProgressLog(a)) = a.totalChunks
                /\ AllOk(a)

\* C32 (amended) - the same for totalChunks from 1 to 199, and the
\* progress is 100 once all chunks have been accepted.
C32_HundredOnlyWhenCompleteBelow200 ==
    \A n \in ChunkAtts :
        LET a == atts[n]
        IN  (/\ n = Len(atts) /\ a.alone /\ a.progress0 = 0
             /\ a.totalChunks >= 1) =>
                /\ (chunksProgress = 100 /\ a.totalChunks < 200) =>
                      /\ Len(ProgressLog(a)) = a.totalChunks
                      /\ AllOk(a)
                /\ (Len(ProgressLog(a)) = a.totalChunks) => chunksProgress = 100

\* 198 of 199 chunks accepted, the last one in flight: 99.
C32_Witness ==
    \E n \in ChunkAtts :
        /\ atts[n].totalChunks = 199
        /\ Len(ProgressLog(atts[n])) = 198
        /\ atts[n].pc = "awaitChunk"
        /\ chunksProgress = 99

\* C33 - every chunk of a chunked attempt is cut from the file that was
\* first in the Selection at submit, with its name, the chunkSize and the
\* totalChunks of that moment, whatever the Selection has become since.
C33_BoundToSubmittedFile ==
    \A n \in ChunkAtts :
        LET a == atts[n]
            f == a.sel[1]
        IN  Dispatched(a) =>
                \A j \in 1..Len(a.calls) :
                    a.calls[j] = FormData(f, j - 1, TotalChunks(f.size, props.chunkSize),
                                          props.chunkSize)

\* a.txt went out in two chunks although b.txt had replaced it in the
\* Selection by the time the second was answered.
C33_Witness ==
    \E n \in ChunkAtts :
        /\ atts[n].sel = <<File("a.txt", 2)>>
        /\ files = <<File("b.txt", 1)>>
        /\ Len(atts[n].calls) = 2
        /\ atts[n].calls[2].filename = "a.txt"
        /\ atts[n].pc = "done"

\* The files of a Selection that were not part of a submitted one.
SelectedSince(cur, sel) ==
    LET Later(f) == \A j \in 1..Len(sel) : sel[j] # f
    IN  SelectSeq(cur, Later)

\* C34 - when a whole-file batch succeeds, only the files that were
\* submitted leave the Selection: files selected while the batch was in
\* flight are still selected afterwards.
C34_LaterSelectionSurvives ==
    [][\A n \in WholeAtts :
           (Completes(n) /\ ~Rejected(atts'[n])) =>
               files' = SelectedSince(files, atts[n].sel)]_vars

\* C35 - at most one transfer attempt is active at a time: a submit made
\* while an attempt is in flight starts no second attempt.
C35_OneActiveAttempt ==
    Cardinality({n \in 1..Len(atts) : atts[n].pc # "done"}) <= 1

\* C36 - useChunkedUpload: isUploading is true as long as a transfer of a
\* selected file has chunks left to settle, and it is false again once the
\* call of upload() is over, a zero-byte file included.
C36_UploadingUntilSettled ==
    \A n \in ChunkAtts :
        LET a == atts[n]
        IN  (n = Len(atts) /\ Dispatched(a) /\ "settled" \in DOMAIN a) =>
                /\ a.pc # "done" => isUploading
                /\ a.pc = "done" => ~isUploading

\* C37 - hook variant, chunked: a transfer with a failed chunk ends with one
\* onFail, without onSuccess and without clearing the Selection; onSuccess
\* and the clearing happen only after every chunk was uploaded.
C37_ChunkFailureReported ==
    \A n \in ChunkAtts :
        LET a == atts[n]
        IN  (a.pc = "done" /\ "settled" \in DOMAIN a) =>
                /\ Rejected(a) =>
                       /\ Count(a.trace, "onFail") = 1
                       /\ Count(a.trace, "onSuccess") = 0
                       /\ Count(a.trace, "setFiles") = 0
                /\ (Count(a.trace, "onSuccess") > 0 \/ Count(a.trace, "setFiles") > 0) =>
                       AllOk(a)

\* C38 - useUpload: upload() calls uploadSingle once per file, in order;
\* when a call has rejected, error is the Error of a rejected call, upload()
\* has rejected with that same Error and setError ran once; when every call
\* has resolved, upload() has resolved and error is untouched; once upload()
\* has settled, isUploading is false.
C38_UploadHookSettles ==
    \A n \in WholeAtts :
        LET a == atts[n]
        IN  "settled" \in DOMAIN a =>
                /\ a.calls = a.sel
                /\ Count(a.trace, "uploadSingle") = Len(a.sel)
                /\ Rejected(a) =>
                       /\ a.settled = "rejected"
                       /\ a.thrown = error
                       /\ \E k \in 1..Len(a.results) :
                              a.results[k] = "rejected" /\ a.reasons[k] = error
                       /\ Count(a.trace, "setError") = 1
                /\ (~Rejected(a) /\ Inflight(a) = {}) =>
                       /\ a.settled = "resolved"
                       /\ error = a.error0
                /\ a.settled # "pending" => ~isUploading

\* Two files were submitted, a.txt was uploaded and b.txt was refused:
\* upload() rejected with that Error and the indicator is off.
C38_Witness ==
    \E n \in WholeAtts :
        /\ "settled" \in DOMAIN atts[n]
        /\ atts[n].sel = <<File("a.txt", 2), File("b.txt", 1)>>
        /\ atts[n].results = <<"ok", "rejected">>
        /\ atts[n].reasons = <<"", "Failed parsing">>
        /\ atts[n].settled = "rejected"
        /\ error = "Failed parsing"
        /\ ~isUploading

====
